---- MODULE Spec2Model ----
(***************************************************************************)
(* Share-link lifecycle engine of the Secure Document Link Sharing         *)
(* Platform: FileShareService (create_share, validate_share_token,         *)
(* record_access, disable_share), the Redis cache helpers and the public   *)
(* download route.  Every store or cache round trip of a handler is one    *)
(* step, so handlers of different requests interleave at their I/O.        *)
(***************************************************************************)
EXTENDS Integers, Sequences, FiniteSets, TLC

VARIABLES
    shares,     \* file_shares table: sequence of rows, row i has id i
    cache,      \* Redis: token -> cached share info with the seconds it has left
    logs,       \* access_logs table: sequence of rows
    req,        \* per request slot: position in its handler and its locals
    last,       \* the answer this step returned to a caller, if it returned one
    hist,       \* history: completed calls per share (observation only)
    redis_up    \* the Redis server answers; FALSE: every call raises RedisError

vars == <<shares, cache, logs, req, last, hist, redis_up>>

----------------------------------------------------------------------------
(* Bounds of the model *)

MaxLogs == 2         \* accesses that may be recorded

(* Program constants *)

CacheTTL == 3600         \* expire=3600 of cache_set
SecondsPerHour == 3600   \* timedelta(hours=...)

(* Timestamps are kept as offsets from the current instant (stamp minus    *)
(* utcnow()): utcnow() itself is offset 0, and the clock advancing by      *)
(* TickStep lowers every stored offset by TickStep.                        *)
TickStep == CacheTTL \div 2

Procs == {1, 2}                    \* requests that may be in flight together
Tokens == {"t1"}                   \* what generate_share_token may return
Owners == {"alice"}                \* users who create shares
Users == {"alice", "bob"}          \* users who call disable_share
Files == {"f1"}
None == <<>>                       \* Optional[...] = None
Some(x) == <<x>>
HoursChoices == {None, Some(0), Some(1)}
\* share_token is unique, so the table holds at most one row per token
ShareIdInputs == 1..Cardinality(Tokens)

----------------------------------------------------------------------------
(* Cache helpers: app/core/redis_client.py *)

\* mutant: the write never reaches the server
cache_set_Dropped(c, tok, value, expire) == c

\* redis_client.setex(key, expire, json.dumps(value))
cache_set(c, tok, value, expire) ==
    [t \in (DOMAIN c) \cup {tok} |->
        IF t = tok THEN [info |-> value, exp |-> expire] ELSE c[t]]

\* redis_client.get(key): the stored value, or None
cache_hit(c, tok) == tok \in DOMAIN c

cache_get(c, tok) == c[tok].info

\* a stored value json.loads rejects; cache_get hands it back as the raw string
Garbled == [raw |-> TRUE]

\* the value cache_get returns for a key that holds something, as the caller
\* of validate_share_token sees it
Decoded(v) == IF v = Garbled THEN [kind |-> "raw"] ELSE [kind |-> "active", info |-> v]

\* mutant: the key that is deleted is not the key that was set
cache_delete_WrongKey(c, tok) == c

\* redis_client.delete(key)
cache_delete(c, tok) == [t \in (DOMAIN c) \ {tok} |-> c[t]]

\* mutant: keys never run out
cache_age_Forever(c, d) == c

\* after d seconds: Redis has dropped the keys whose TTL ran out
cache_age(c, d) ==
    [k \in {x \in DOMAIN c : c[x].exp > d} |-> [c[k] EXCEPT !.exp = @ - d]]

EmptyCache == [k \in {} |-> 0]

(* The helpers as the service calls them: try: ... except redis.RedisError *)

\* mutant: during an outage the read still sees what the server holds
try_cache_hit_Stale(up, c, tok) == cache_hit(c, tok)

\* mutant: the lookup always misses
try_cache_hit_Never(up, c, tok) == FALSE

try_cache_hit(up, c, tok) == up /\ cache_hit(c, tok)

try_cache_set(up, c, tok, value, expire) ==
    IF up THEN cache_set(c, tok, value, expire) ELSE c

try_cache_delete(up, c, tok) == IF up THEN cache_delete(c, tok) ELSE c

----------------------------------------------------------------------------
(* Store helpers *)

ShareIds == 1..Len(shares)

\* mutant: the query without the is_active filter
ActiveByToken_NoFilter(tok) == {i \in ShareIds : shares[i].share_token = tok}

\* db.query(FileShare).filter(share_token == tok, is_active == True)
ActiveByToken(tok) ==
    {i \in ShareIds : shares[i].share_token = tok /\ shares[i].is_active}

ByToken(tok) == {i \in ShareIds : shares[i].share_token = tok}

\* mutant: the expiry check never fires
IsExpired_Never(expires_at) == FALSE

\* share.expires_at and datetime.utcnow() > share.expires_at
IsExpired(expires_at) == expires_at # None /\ 0 > expires_at[1]

\* if share_request.expires_in_hours: utcnow() + timedelta(hours=...)
ExpiresAt(hours) ==
    IF hours # None /\ hours[1] # 0
    THEN Some(0 + hours[1] * SecondsPerHour)
    ELSE None

\* mutant: the projection carries the owner where the file belongs
ShareInfo_OwnerAsFile(i, row) ==
    [share_id |-> i, file_id |-> row.user_id, user_id |-> row.user_id,
     one_time_access |-> row.one_time_access, is_active |-> TRUE]

\* mutant: the entry names another share
ShareInfo_OtherShare(i, row) ==
    [share_id |-> i + 1, file_id |-> row.file_id, user_id |-> row.user_id,
     one_time_access |-> row.one_time_access, is_active |-> TRUE]

ShareInfo(i, row) ==
    [share_id |-> i, file_id |-> row.file_id, user_id |-> row.user_id,
     one_time_access |-> row.one_time_access, is_active |-> TRUE]

\* created_at is server_default=func.now(): offset 0 at the insert
NewShare(u, f, ot, h, tok) ==
    [user_id |-> u, file_id |-> f, share_token |-> tok, one_time_access |-> ot,
     is_active |-> TRUE, download_count |-> 0, expires_at |-> ExpiresAt(h),
     created_at |-> 0]

(* ShareResponse.model_validate(obj), from_attributes = True: each field  *)
(* is read from the attribute of the same name of the object, and a field *)
(* without a default whose attribute is missing raises ValidationError.   *)

\* the columns of FileShare
FileShareAttributes ==
    {"id", "user_id", "file_id", "file_name", "file_size", "file_hash",
     "share_token", "is_active", "download_count", "one_time_access",
     "expires_at", "created_at", "updated_at"}

\* the fields of ShareResponse that have no default
ShareResponseRequired ==
    {"share_id", "share_token", "file_name", "file_size", "is_active",
     "download_count", "one_time_access", "created_at"}

model_validate_ok == ShareResponseRequired \subseteq FileShareAttributes

----------------------------------------------------------------------------
(* Request slots *)

Pending == [kind |-> "pending"]
NotFound == [kind |-> "not_found"]
Active(info) == [kind |-> "active", info |-> info]
Outcome(k) == [kind |-> k]

\* what a handler that ends with ShareResponse.model_validate hands back:
\* the response, or the ValidationError
ResponseOf(k) == IF model_validate_ok THEN Outcome(k) ELSE Outcome("response_error")

Idle ==
    [pc |-> "idle", op |-> "none", token |-> 0, share_id |-> 0, user_id |-> "",
     hours |-> None, cnt |-> 0, tries |-> 0, result |-> Pending, pre |-> {}]

NoAnswer == [op |-> "none"]

\* the handler of request r returns `res` to its caller
Answer(r, res) ==
    [op |-> r.op, token |-> r.token, share_id |-> r.share_id, user_id |-> r.user_id,
     tries |-> r.tries, pre |-> r.pre, result |-> res]

Init ==
    /\ shares = <<>>
    /\ cache = EmptyCache
    /\ logs = <<>>
    /\ req = [p \in Procs |-> Idle]
    /\ last = NoAnswer
    /\ hist = [raDone |-> [i \in ShareIdInputs |-> 0],
            served |-> [i \in ShareIdInputs |-> 0],
            disabled |-> {}, lost |-> 0,
            inactive_for |-> [i \in ShareIdInputs |-> 0]]
    /\ redis_up = TRUE

\* a request is taken by the first free slot
Free(p) == req[p].pc = "idle"

CanStart(p) == Free(p) /\ \A q \in Procs : q < p => ~Free(q)

\* requests in flight that will write an access_logs row if they get that far
Recording == {q \in Procs : req[q].op \in {"download", "record"}}

\* accesses are taken while the rows written, the rows whose commit failed
\* and the rows still to come stay within MaxLogs
LogRoom == Len(logs) + hist.lost + Cardinality(Recording) < MaxLogs

----------------------------------------------------------------------------
(* FileShareService.create_share *)

\* db.add(db_share); db.commit(): the unique index on share_token rejects a
\* token some row already has, and the IntegrityError leaves create_share
TokenTaken(tok) == ByToken(tok) # {}

create_share_commit(p, u, f, ot, h, tok) ==
    /\ CanStart(p)
    /\ UNCHANGED <<hist, redis_up>>
    /\ IF TokenTaken(tok)
       THEN /\ last' = Answer([Idle EXCEPT !.op = "create", !.tries = 1],
                               Outcome("error"))
            /\ UNCHANGED <<shares, req>>
       ELSE /\ shares' = Append(shares, NewShare(u, f, ot, h, tok))
            /\ req' = [req EXCEPT ![p] = [Idle EXCEPT !.pc = "c_cache", !.op = "create",
                                     !.tries = 1, !.token = tok, !.hours = h,
                                     !.share_id = Len(shares) + 1]]
            /\ last' = NoAnswer
    /\ UNCHANGED <<cache, logs>>

\* cache_set(f"share_token:{share_token}", {...}, expire=3600)
\* return ShareResponse.model_validate(db_share)
create_share_cache(p) ==
    /\ req[p].pc = "c_cache"
    /\ LET i == req[p].share_id IN
       cache' = try_cache_set(redis_up, cache, req[p].token,
                              ShareInfo(i, shares[i]), CacheTTL)
    /\ req' = [req EXCEPT ![p] = Idle]
    /\ last' = Answer(req[p], ResponseOf("created"))
    /\ UNCHANGED <<shares, logs, hist, redis_up>>

----------------------------------------------------------------------------
(* FileShareService.validate_share_token, called on its own or as the     *)
(* first step of download_via_share                                       *)

\* what is true of the token's share when the call starts
PreOf(tok) ==
    (IF redis_up THEN {} ELSE {"outage"})
    \cup {"fresh" : i \in {j \in ByToken(tok) :
                         last.op = "create" /\ last.share_id = j}}
    \cup {"expired" : i \in {j \in ByToken(tok) : IsExpired(shares[j].expires_at)}}
    \cup {"disabled" : i \in {j \in ByToken(tok) : j \in hist.disabled}}
    \cup {"consumed" : i \in {j \in ByToken(tok) :
                                 shares[j].one_time_access /\ hist.raDone[j] > 0}}

\* validate_share_token returns `res`: to its caller, or to the download
\* route, which goes on to fetch the file when the result is a share info
Validated(p, r, res) ==
    IF r.op = "download" /\ res.kind = "active"      \* if not share_info: 401
    THEN /\ req' = [req EXCEPT ![p] = [r EXCEPT !.pc = "fetch", !.result = res,
                                               !.share_id = res.info.share_id]]
         /\ last' = NoAnswer
    ELSE /\ req' = [req EXCEPT ![p] = Idle]
         /\ last' = Answer(r, res)

\* cached_share = cache_get(...); if cached_share: return cached_share
validate_cache_get(p, tok, o) ==
    /\ CanStart(p)
    /\ o = "download" => LogRoom
    /\ UNCHANGED <<hist, redis_up>>
    /\ LET r == [Idle EXCEPT !.op = o, !.token = tok, !.pre = PreOf(tok)] IN
       IF try_cache_hit(redis_up, cache, tok)
       THEN Validated(p, r, Decoded(cache_get(cache, tok)))
       ELSE /\ req' = [req EXCEPT ![p] = [r EXCEPT !.pc = "v_query"]]
            /\ last' = NoAnswer
    /\ UNCHANGED <<shares, cache, logs>>

\* the query with the is_active filter, then the expiry check
validate_query(p) ==
    /\ req[p].pc = "v_query"
    /\ LET found == ActiveByToken(req[p].token) IN
       IF found = {}
       THEN Validated(p, req[p], NotFound)
       ELSE \E i \in found :
              /\ req' = [req EXCEPT ![p] =
                           [req[p] EXCEPT !.share_id = i,
                              !.pc = IF IsExpired(shares[i].expires_at)
                                     THEN "v_expire" ELSE "v_cache_set"]]
              /\ last' = NoAnswer
    /\ UNCHANGED <<shares, cache, logs, hist, redis_up>>

\* share.is_active = False; db.commit(); return None
validate_expire(p) ==
    /\ req[p].pc = "v_expire"
    /\ shares' = [shares EXCEPT ![req[p].share_id].is_active = FALSE]
    /\ Validated(p, req[p], NotFound)
    /\ UNCHANGED <<cache, logs, hist, redis_up>>

\* cache_set(..., share_info, expire=3600); return share_info
validate_cache_set(p) ==
    /\ req[p].pc = "v_cache_set"
    /\ LET i == req[p].share_id
           info == ShareInfo(i, shares[i]) IN
       /\ cache' = try_cache_set(redis_up, cache, req[p].token, info, CacheTTL)
       /\ Validated(p, req[p], Active(info))
    /\ UNCHANGED <<shares, logs, hist, redis_up>>

----------------------------------------------------------------------------
(* download_via_share: between validation and record_access *)

\* if not file_data: raise HTTPException(500)
download_fetch_fail(p) ==
    /\ req[p].pc = "fetch"
    /\ req' = [req EXCEPT ![p] = Idle]
    /\ last' = Answer(req[p], Outcome("fetch_failed"))
    /\ UNCHANGED <<shares, cache, logs, hist, redis_up>>

----------------------------------------------------------------------------
(* FileShareService.record_access, called on its own or by the route *)

\* share = db.query(FileShare).filter(FileShare.id == share_id).first()
\* share.download_count += 1 (on the loaded object; written at the commit)
RecordLoaded(r, sid) ==
    IF sid \in ShareIds
    THEN [r EXCEPT !.share_id = sid,
                   !.cnt = shares[sid].download_count + 1,
                   !.pc = IF shares[sid].one_time_access THEN "r_evict" ELSE "r_commit"]
    ELSE [r EXCEPT !.share_id = sid, !.pc = "r_log"]

record_access_query(p, sid) ==
    /\ \/ /\ CanStart(p)
          /\ LogRoom
          /\ req' = [req EXCEPT ![p] = RecordLoaded([Idle EXCEPT !.op = "record"], sid)]
       \/ /\ req[p].pc = "fetch"      \* download_file returned the content
          /\ sid = req[p].share_id
          /\ req' = [req EXCEPT ![p] = RecordLoaded(req[p], sid)]
    /\ last' = NoAnswer
    /\ UNCHANGED <<shares, cache, logs, hist, redis_up>>

\* if share.one_time_access: cache_delete(f"share_token:{share.share_token}")
record_access_evict(p) ==
    /\ req[p].pc = "r_evict"
    /\ cache' = try_cache_delete(redis_up, cache, shares[req[p].share_id].share_token)
    /\ req' = [req EXCEPT ![p].pc = "r_commit"]
    /\ last' = NoAnswer
    /\ UNCHANGED <<shares, logs, hist, redis_up>>

\* mutant: is_active is assigned from one_time_access for every share
RecordWrite_Reassigns(row, cnt) ==
    [row EXCEPT !.download_count = cnt, !.is_active = ~row.one_time_access]

\* mutant: the one-time branch is missing
RecordWrite_CountOnly(row, cnt) == [row EXCEPT !.download_count = cnt]

\* mutant: every recorded access deactivates the share
RecordWrite_Always(row, cnt) ==
    [row EXCEPT !.download_count = cnt, !.is_active = FALSE]

\* the UPDATE the commit flushes: the columns the handler assigned
RecordWrite(row, cnt) ==
    [row EXCEPT !.download_count = cnt,
                !.is_active = IF row.one_time_access THEN FALSE ELSE @]

record_access_commit(p) ==
    /\ req[p].pc = "r_commit"
    /\ shares' = [shares EXCEPT ![req[p].share_id] = RecordWrite(@, req[p].cnt)]
    /\ req' = [req EXCEPT ![p].pc = "r_log"]
    /\ last' = NoAnswer
    /\ UNCHANGED <<cache, logs, hist, redis_up>>

\* mutant: the row is written with success = False
AccessLogRow_Unsuccessful(sid) == [file_share_id |-> sid, success |-> FALSE]

\* AccessLog(file_share_id=share_id, ..., success=True)
AccessLogRow(sid) == [file_share_id |-> sid, success |-> TRUE]

\* mutant: the insert rewrites the rows the table holds
InsertLog_Rewrites(table, row) ==
    Append([k \in DOMAIN table |-> [table[k] EXCEPT !.success = FALSE]], row)

\* db.add(access_log); db.commit(): one more row, the others as they are
InsertLog(table, row) == Append(table, row)

\* record_access returns; the route then returns the file content
record_access_log(p) ==
    /\ req[p].pc = "r_log"
    /\ LET sid == req[p].share_id
           known == req[p].cnt > 0       \* the query found the share
       IN
       /\ logs' = InsertLog(logs, AccessLogRow(sid))
       /\ hist' = [hist EXCEPT
                     !.raDone[sid] = IF known THEN @ + 1 ELSE @,
                     !.served[sid] = IF req[p].op = "download" THEN @ + 1 ELSE @]
       /\ req' = [req EXCEPT ![p] = Idle]
       /\ last' = Answer(req[p], IF req[p].op = "download"
                                 THEN Outcome("served")
                                 ELSE Outcome("recorded"))
    /\ UNCHANGED <<shares, cache, redis_up>>

\* the commit of the access_logs row raises (store unreachable, timeout):
\* record_access leaves with the exception; download_via_share catches it,
\* prints it and still returns the file content
record_access_log_fail(p) ==
    /\ req[p].pc = "r_log"
    /\ hist' = [hist EXCEPT
                  !.lost = @ + 1,
                  !.served[req[p].share_id] = IF req[p].op = "download" THEN @ + 1 ELSE @]
    /\ req' = [req EXCEPT ![p] = Idle]
    /\ last' = Answer(req[p], IF req[p].op = "download"
                              THEN Outcome("served")
                              ELSE Outcome("store_error"))
    /\ UNCHANGED <<shares, cache, logs, redis_up>>

----------------------------------------------------------------------------
(* FileShareService.disable_share *)

\* mutant: the query does not filter on user_id
OwnedBy_AnyUser(sid, uid) == sid \in ShareIds

\* db.query(FileShare).filter(id == share_id, user_id == user_id).first()
OwnedBy(sid, uid) == sid \in ShareIds /\ shares[sid].user_id = uid

\* mutant: the route tells a share of another user from a share that is not there
DeniedOutcome_Leaks(sid) ==
    IF sid \in ShareIds THEN Outcome("forbidden") ELSE Outcome("denied")

\* return False; the route: 404 "Share not found or access denied"
DeniedOutcome(sid) == Outcome("denied")

\* mutant: the update also resets the counter
DisableWrite_Resets(row) == [row EXCEPT !.is_active = FALSE, !.download_count = 0]

\* share.is_active = False (the only column the UPDATE writes)
DisableWrite(row) == [row EXCEPT !.is_active = FALSE]

\* what is true of the share when disable_share is called
DisablePre(sid) == {"inactive" : i \in {j \in {sid} \cap ShareIds : ~shares[j].is_active}}

\* the query; share.is_active = False; db.commit()
disable_share_commit(p, sid, uid) ==
    /\ CanStart(p)
    /\ UNCHANGED <<hist, redis_up>>
    /\ LET r == [Idle EXCEPT !.op = "disable", !.share_id = sid, !.user_id = uid,
                             !.pre = DisablePre(sid)] IN
       IF OwnedBy(sid, uid)
       THEN /\ shares' = [shares EXCEPT ![sid] = DisableWrite(@)]
            /\ req' = [req EXCEPT ![p] = [r EXCEPT !.pc = "d_evict"]]
            /\ last' = NoAnswer
       ELSE /\ last' = Answer(r, DeniedOutcome(sid))
            /\ UNCHANGED <<shares, req>>
    /\ UNCHANGED <<cache, logs>>

\* cache_delete(f"share_token:{share.share_token}"); return True
disable_share_evict(p) ==
    /\ req[p].pc = "d_evict"
    /\ cache' = try_cache_delete(redis_up, cache, shares[req[p].share_id].share_token)
    /\ hist' = [hist EXCEPT !.disabled = @ \cup {req[p].share_id}]
    /\ req' = [req EXCEPT ![p] = Idle]
    /\ last' = Answer(req[p], Outcome("success"))
    /\ UNCHANGED <<shares, logs, redis_up>>

----------------------------------------------------------------------------
(* FileShareService.get_share_by_token (no route calls it) *)

\* the query by token; if not share: None; if not share.is_active: None
get_share_by_token_query(p, tok) ==
    /\ CanStart(p)
    /\ LET r == [Idle EXCEPT !.op = "get_share", !.token = tok, !.pre = PreOf(tok)]
           found == ByToken(tok) IN
       IF found = {} \/ \A i \in found : ~shares[i].is_active
       THEN /\ last' = Answer(r, NotFound)
            /\ UNCHANGED req
       ELSE \E i \in found :
              IF IsExpired(shares[i].expires_at)
              THEN /\ req' = [req EXCEPT ![p] = [r EXCEPT !.pc = "g_expire",
                                                          !.share_id = i]]
                   /\ last' = NoAnswer
              ELSE /\ last' = Answer([r EXCEPT !.share_id = i], ResponseOf("share"))
                   /\ UNCHANGED req
    /\ UNCHANGED <<shares, cache, logs, hist, redis_up>>

\* share.is_active = False; db.commit(); return None
get_share_by_token_expire(p) ==
    /\ req[p].pc = "g_expire"
    /\ shares' = [shares EXCEPT ![req[p].share_id].is_active = FALSE]
    /\ req' = [req EXCEPT ![p] = Idle]
    /\ last' = Answer(req[p], NotFound)
    /\ UNCHANGED <<cache, logs, hist, redis_up>>

----------------------------------------------------------------------------
(* FileShareService.get_user_shares *)

\* .order_by(FileShare.created_at.desc()): the ids in an order that has
\* created_at descending (rows with equal created_at in any order)
Descending(ids) ==
    {s \in [1..Cardinality(ids) -> ids] :
        /\ \A a, b \in DOMAIN s : a # b => s[a] # s[b]
        /\ \A a, b \in DOMAIN s :
              a < b => shares[s[a]].created_at >= shares[s[b]].created_at}

\* [ShareResponse.model_validate(share) for share in shares]
Listed(order) ==
    IF order = <<>> \/ model_validate_ok
    THEN [kind |-> "list", ids |-> order]
    ELSE Outcome("response_error")

get_user_shares(p, uid) ==
    /\ CanStart(p)
    /\ \E order \in Descending({i \in ShareIds : shares[i].user_id = uid}) :
          last' = Answer([Idle EXCEPT !.op = "list", !.user_id = uid], Listed(order))
    /\ UNCHANGED <<shares, cache, logs, req, hist, redis_up>>

----------------------------------------------------------------------------
(* The clock *)

PastFloor == 0 - TickStep          \* offsets below it are not told apart

Older(ts, d) ==
    IF ts = None THEN None
    ELSE Some(IF ts[1] - d < PastFloor THEN PastFloor ELSE ts[1] - d)

\* TickStep seconds pass
Tick ==
    /\ shares' = [i \in DOMAIN shares |->
                    [shares[i] EXCEPT !.expires_at = Older(@, TickStep),
                                      !.created_at = Older(Some(@), TickStep)[1]]]
    /\ cache' = cache_age(cache, TickStep)
    /\ shares' # shares \/ cache' # cache
    /\ last' = NoAnswer
    /\ UNCHANGED <<logs, req, hist, redis_up>>

\* the time a share has been inactive, as far as TickStep (observation only)
InactiveFor(h) ==
    [i \in DOMAIN h |->
        IF i \in ShareIds /\ ~shares[i].is_active THEN TickStep ELSE h[i]]

\* TickStep seconds pass, and the time since the deactivations is kept
TickObserved ==
    /\ shares' = [i \in DOMAIN shares |->
                    [shares[i] EXCEPT !.expires_at = Older(@, TickStep),
                                      !.created_at = Older(Some(@), TickStep)[1]]]
    /\ cache' = cache_age(cache, TickStep)
    /\ hist' = [hist EXCEPT !.inactive_for = InactiveFor(@)]
    /\ shares' # shares \/ cache' # cache \/ hist' # hist
    /\ last' = NoAnswer
    /\ UNCHANGED <<logs, req, redis_up>>

\* the requests create_share may get for a token: a token the table already
\* has is rejected whatever else the request says, so one request stands for all
CreateInputs(tok) ==
    IF ByToken(tok) # {}
    THEN {<<CHOOSE u \in Owners : TRUE, CHOOSE f \in Files : TRUE, FALSE, None>>}
    ELSE Owners \X Files \X BOOLEAN \X HoursChoices

Handler(p) ==
    \/ \E tok \in Tokens : \E i \in CreateInputs(tok) :
            create_share_commit(p, i[1], i[2], i[3], i[4], tok)
    \/ create_share_cache(p)
    \/ \E tok \in Tokens, o \in {"validate", "download"} : validate_cache_get(p, tok, o)
    \/ validate_query(p)
    \/ validate_expire(p)
    \/ validate_cache_set(p)
    \/ download_fetch_fail(p)
    \/ \E sid \in ShareIdInputs : record_access_query(p, sid)
    \/ record_access_evict(p)
    \/ record_access_commit(p)
    \/ record_access_log(p)
    \/ \E sid \in ShareIdInputs, uid \in Users : disable_share_commit(p, sid, uid)
    \/ disable_share_evict(p)
    \/ \E uid \in Users : get_user_shares(p, uid)

\* requests are served concurrently: their handlers interleave at every step
Next == Tick \/ \E p \in Procs : Handler(p)

Spec == Init /\ [][Next]_vars

\* the handler in slot p, once started, takes its next step
Proceed(p) == ~Free(p) /\ Handler(p)

\* the served application where time goes on (Redis drops a key when its
\* TTL has run out) and every request that was taken is served to its end
LiveSpec == Spec /\ WF_vars(Tick) /\ \A p \in Procs : WF_vars(Proceed(p))

Quiet == \A p \in Procs : Free(p)

Alone(p) == \A q \in Procs \ {p} : Free(q)

\* one request at a time: a handler runs from its call to its return before
\* the next request is taken, and the clock ticks between requests
NextSeq == (Quiet /\ Tick) \/ \E p \in Procs : Alone(p) /\ Handler(p)

SeqSpec == Init /\ [][NextSeq]_vars

\* requests for a share come from clients that know it: create_share has
\* returned its id and token before any other request is taken; a tick is
\* long against a request, so none is in flight when the clock ticks
CreateRunsAlone(p) ==
    /\ \A q \in Procs \ {p} : req[q].op # "create"
    /\ (Free(p) /\ req'[p].op = "create") => Alone(p)

NextServe ==
    (Quiet /\ Tick) \/ \E p \in Procs : Handler(p) /\ CreateRunsAlone(p)

ServeSpec == Init /\ [][NextServe]_vars

\* the service called directly, one call at a time: the routes' handlers
\* and get_share_by_token
NextService ==
    \/ NextSeq
    \/ \E p \in Procs : Alone(p) /\ \E tok \in Tokens : get_share_by_token_query(p, tok)
    \/ \E p \in Procs : Alone(p) /\ get_share_by_token_expire(p)

ServiceSpec == Init /\ [][NextService]_vars

\* the served application, with the time since each deactivation observed:
\* requests interleave and time passes while they run; a share's id and
\* token are known to clients once its create_share has returned
NextObserved == TickObserved \/ \E p \in Procs : Handler(p) /\ CreateRunsAlone(p)

ObservedSpec == Init /\ [][NextObserved]_vars

----------------------------------------------------------------------------
(* Faults of the collaborators *)

\* the Redis server becomes unreachable and stays so: from here on setex,
\* get and delete raise redis.RedisError; what the server holds is kept
redis_fail ==
    /\ redis_up
    /\ redis_up' = FALSE
    /\ last' = NoAnswer
    /\ UNCHANGED <<shares, cache, logs, req, hist>>

\* the value under a key is replaced by one that is not JSON
cache_corrupt(tok) ==
    /\ cache_hit(cache, tok)
    /\ cache[tok].info # Garbled
    /\ cache' = [cache EXCEPT ![tok].info = Garbled]
    /\ last' = NoAnswer
    /\ UNCHANGED <<shares, logs, req, hist, redis_up>>

\* one request at a time, with a cache and a store that may fail
NextFault ==
    \/ NextSeq
    \/ redis_fail
    \/ \E tok \in Tokens : Quiet /\ cache_corrupt(tok)
    \/ \E p \in Procs : Alone(p) /\ record_access_log_fail(p)

FaultSpec == Init /\ [][NextFault]_vars

----------------------------------------------------------------------------
(* Observations the properties below are stated with *)

TokenOf(i) == shares[i].share_token

\* a record_access call on share i is between its query and its return
RecordInFlight(i) ==
    \E p \in Procs : req[p].pc \in {"r_evict", "r_commit", "r_log"}
                     /\ req[p].share_id = i /\ req[p].cnt > 0

\* a validate_share_token call that started when `flag` held of its token's
\* share has returned a share info (to its caller or to the download route)
ValidatedActive(flag) ==
    \/ last.op = "validate" /\ flag \in last.pre /\ last.result.kind = "active"
    \/ \E p \in Procs : req[p].pc = "fetch" /\ flag \in req[p].pre

\* a validate_share_token call has just returned to its caller
ValidateAnswered == last.op = "validate"

\* a record_access call (direct or by the download route) has just returned
RecordAnswered(i) ==
    /\ last.op \in {"record", "download"}
    /\ last.result.kind \in {"recorded", "served"}
    /\ last.share_id = i

----------------------------------------------------------------------------
(* C1: a one-time share is never granted twice: among the download        *)
(* requests for a share with one_time_access = true, in any interleaving, *)
(* at most one passes validation and is served the file.                  *)
C1_OneTimeGrantedOnce ==
    \A i \in ShareIds : shares[i].one_time_access => hist.served[i] <= 1

(* C2: a ValidateToken call for a share whose expires_at is earlier than  *)
(* the current time returns not-found, on the cache-hit path and on the   *)
(* store path, and afterwards neither cache nor store reports it active.  *)
C2_ExpiredIsNotFound ==
    /\ ~ValidatedActive("expired")
    /\ (ValidateAnswered /\ "expired" \in last.pre) =>
          /\ last.result = NotFound
          /\ ~cache_hit(cache, last.token)
          /\ ActiveByToken(last.token) = {}

(* C3: once a successful DisableShare has returned, every ValidateToken   *)
(* call for the share's token that starts afterwards returns not-found.   *)
C3_NotFoundAfterDisable == ~ValidatedActive("disabled")

(* C4: once a RecordAccess call on a one-time share has returned, every   *)
(* ValidateToken call for the share's token that starts afterwards        *)
(* returns not-found.                                                     *)
C4_NotFoundAfterConsume == ~ValidatedActive("consumed")

(* C5: every RecordAccess call that finds the share increments            *)
(* download_count by exactly one: when N such calls have completed and    *)
(* none is in flight, download_count equals N.                            *)
C5_CountEqualsCalls ==
    \A i \in ShareIds :
        ~RecordInFlight(i) => shares[i].download_count = hist.raDone[i]

(* C6: is_active is one-way: no step of any handler, in any interleaving, *)
(* turns a share that is inactive in the store back to active.            *)
C6_InactiveIsTerminal ==
    [][\A i \in ShareIds : ~shares[i].is_active => ~shares'[i].is_active]_vars

\* a record_access call has returned on a share that is not one-time and was
\* disabled before, and the share is inactive
C6_Witness ==
    \E i \in ShareIds :
        /\ RecordAnswered(i)
        /\ ~shares[i].one_time_access
        /\ i \in hist.disabled
        /\ ~shares[i].is_active

(* C7: for a one-time share, as soon as one RecordAccess call has         *)
(* completed, is_active is false in the store and download_count >= 1,    *)
(* and this stays so under further concurrent RecordAccess,               *)
(* ValidateToken and DisableShare calls.                                  *)
C7_ConsumedStaysInactive ==
    \A i \in ShareIds :
        (shares[i].one_time_access /\ hist.raDone[i] >= 1) =>
            (~shares[i].is_active /\ shares[i].download_count >= 1)

\* two record_access calls have completed on a one-time share while a third
\* request is in flight
C7_Witness ==
    \E i \in ShareIds :
        /\ shares[i].one_time_access
        /\ hist.raDone[i] >= 2
        /\ \E p \in Procs : ~Free(p)

(* C8: with one request at a time, for a share created with               *)
(* one_time_access = true and no expiry (and not disabled): ValidateToken *)
(* returns the active share info while no RecordAccess has run;           *)
(* RecordAccess leaves the share inactive, with download_count = 1 after  *)
(* the first call; a ValidateToken after that returns not-found.          *)
C8_OneTimeScenario ==
    \A i \in ShareIds :
        (shares[i].one_time_access /\ shares[i].expires_at = None) =>
            /\ (ValidateAnswered /\ last.token = TokenOf(i)
                  /\ hist.raDone[i] = 0 /\ shares[i].is_active) =>
                   (last.result.kind = "active" /\ last.result.info.share_id = i)
            /\ RecordAnswered(i) =>
                   /\ ~shares[i].is_active
                   /\ hist.raDone[i] = 1 => shares[i].download_count = 1
            /\ (ValidateAnswered /\ last.token = TokenOf(i) /\ hist.raDone[i] >= 1) =>
                   last.result = NotFound

\* the end of the scenario: the validation after the one recorded access
C8_Witness ==
    \E i \in ShareIds :
        /\ shares[i].one_time_access /\ shares[i].expires_at = None
        /\ i \notin hist.disabled
        /\ hist.raDone[i] = 1 /\ shares[i].download_count = 1
        /\ ValidateAnswered /\ last.token = TokenOf(i) /\ last.result = NotFound

(* C9: CreateShare sets expires_at whenever expiresInHours is provided,   *)
(* the value 0 included, and leaves it null only when it is absent.       *)
C9_ExpiryWheneverProvided ==
    \A p \in Procs :
        req[p].pc = "c_cache" =>
            (shares[req[p].share_id].expires_at = None <=> req[p].hours = None)

(* C10: a single token collision does not make CreateShare fail: it       *)
(* reports a failure only after more than one generated token collided.   *)
C10_CollisionIsRetried ==
    (last.op = "create" /\ last.result = Outcome("error")) => last.tries > 1

\* `res` is an active share info that agrees with the row of the token
InfoMatches(res, tok) ==
    /\ res.kind = "active"
    /\ \E i \in ByToken(tok) :
          /\ res.info.share_id = i
          /\ res.info.file_id = shares[i].file_id
          /\ res.info.user_id = shares[i].user_id
          /\ res.info.one_time_access = shares[i].one_time_access
          /\ res.info.is_active = TRUE

(* C11: a ValidateToken call made immediately after CreateShare returned  *)
(* (nothing in between) is answered from the cache and returns an active  *)
(* share info whose share id, file_id, owner id and one_time_access are   *)
(* those of the created share.                                            *)
C11_ValidateAfterCreate ==
    /\ \A p \in Procs :
          "fresh" \in req[p].pre =>
              /\ req[p].pc \notin {"v_query", "v_expire", "v_cache_set"}
              /\ req[p].pc = "fetch" => InfoMatches(req[p].result, req[p].token)
    /\ (last.op = "validate" /\ "fresh" \in last.pre) =>
          InfoMatches(last.result, last.token)

\* the validation right after the creation of a one-time share has returned
C11_Witness ==
    /\ last.op = "validate" /\ "fresh" \in last.pre
    /\ last.result.kind = "active"
    /\ \E i \in ByToken(last.token) :
          shares[i].one_time_access /\ shares[i].download_count = 0

\* share i is not one-time, has no expiry, and no disable_share by its owner
\* has been called on it
Durable(i) ==
    /\ ~shares[i].one_time_access
    /\ shares[i].expires_at = None
    /\ i \notin hist.disabled
    /\ \A p \in Procs : ~(req[p].op = "disable" /\ req[p].share_id = i)

RecordPcs == {"r_evict", "r_commit", "r_log"}

\* request slot p takes a step of record_access on share sid
RecordStep(p, sid) ==
    /\ req'[p] # req[p]
    /\ \/ req[p].pc \in RecordPcs /\ req[p].share_id = sid
       \/ req'[p].pc \in RecordPcs /\ req'[p].share_id = sid

(* C12: a share created with one_time_access = false and no expiry, and   *)
(* never disabled, stays valid under repeated access: it is active in the *)
(* store, every ValidateToken call for its token returns its active share *)
(* info whatever number of RecordAccess calls have run, and no step of    *)
(* RecordAccess changes its is_active or the cache.                       *)
C12_DurableShareSurvives ==
    /\ [](\A i \in ShareIds :
            Durable(i) =>
               /\ shares[i].is_active
               /\ (ValidateAnswered /\ last.token = TokenOf(i)) =>
                      InfoMatches(last.result, last.token))
    /\ [][\A p \in Procs : \A i \in ShareIds :
            (RecordStep(p, i) /\ ~shares[i].one_time_access) =>
               /\ shares'[i].is_active = shares[i].is_active
               /\ cache' = cache]_vars

\* the validation after two recorded accesses still returns the share
C12_Witness ==
    \E i \in ShareIds :
        /\ Durable(i)
        /\ hist.raDone[i] = 2 /\ shares[i].download_count >= 1
        /\ ValidateAnswered /\ last.token = TokenOf(i)
        /\ last.result.kind = "active"

\* a disable_share call returns on this step to a caller who is not the
\* owner of the share it names
DisableAnsweredToStranger ==
    /\ last'.op = "disable"
    /\ last'.share_id \in ShareIds
    /\ shares[last'.share_id].user_id # last'.user_id

(* C13: DisableShare(shareId, userId) with userId different from the      *)
(* share's owner returns denied and changes nothing: the rows of the      *)
(* store (is_active, download_count) and the cache are the same before    *)
(* and after the call.                                                    *)
C13_StrangerIsDenied ==
    [][DisableAnsweredToStranger =>
          /\ last'.result = Outcome("denied")
          /\ shares' = shares
          /\ cache' = cache]_vars

\* a user who is not the owner was denied on an active, cached share that
\* has been downloaded
C13_Witness ==
    /\ last.op = "disable" /\ last.result = Outcome("denied")
    /\ \E i \in ShareIds :
          /\ last.share_id = i /\ shares[i].user_id # last.user_id
          /\ shares[i].is_active /\ shares[i].download_count >= 1
          /\ cache_hit(cache, TokenOf(i))

(* C14: DisableShare does not leak the existence of other users' shares:  *)
(* for a caller who does not own shareId the answer of disable_share and  *)
(* of the DELETE route is the one value "denied", the same when a share   *)
(* with that id exists (and belongs to someone else) and when no share    *)
(* with that id exists.                                                   *)
C14_DenialHidesExistence ==
    (last.op = "disable" /\ ~OwnedBy(last.share_id, last.user_id)) =>
        last.result = Outcome("denied")

\* the case that could leak: the share exists, belongs to another user and
\* is already inactive, and the caller got the answer of a missing share
C14_Witness ==
    /\ last.op = "disable"
    /\ last.share_id \in ShareIds
    /\ shares[last.share_id].user_id # last.user_id
    /\ ~shares[last.share_id].is_active
    /\ last.result = Outcome("denied")

\* slot p runs the query and the commit of disable_share on a share of the
\* caller that is already inactive
DisableCommitsOnInactive(p) ==
    /\ Free(p)
    /\ req'[p].op = "disable" /\ req'[p].pc = "d_evict"
    /\ "inactive" \in req'[p].pre

\* slot p returns from such a call
DisableReturnsOnInactive(p) ==
    /\ req[p].pc = "d_evict" /\ req'[p].pc = "idle"
    /\ "inactive" \in req[p].pre

(* C15: DisableShare by the owner is idempotent: on a share that is       *)
(* already inactive (by revocation, expiry or one-time consumption) it    *)
(* returns success, leaves is_active = false and download_count as they   *)
(* were; a second call leaves the store as the first left it, and ends    *)
(* with no cache entry for the token.                                     *)
C15_DisableIsIdempotent ==
    [][\A p \in Procs :
          /\ DisableCommitsOnInactive(p) =>
                (shares' = shares /\ cache' = cache)
          /\ DisableReturnsOnInactive(p) =>
                /\ last'.result = Outcome("success")
                /\ shares' = shares
                /\ ~shares'[req[p].share_id].is_active
                /\ ~cache_hit(cache', TokenOf(req[p].share_id))
                /\ \A t \in Tokens \ {TokenOf(req[p].share_id)} :
                      cache_hit(cache', t) = cache_hit(cache, t)]_vars

\* the owner's call on a consumed one-time share has returned success
C15_Witness ==
    /\ last.op = "disable" /\ last.result = Outcome("success")
    /\ "inactive" \in last.pre
    /\ shares[last.share_id].one_time_access
    /\ shares[last.share_id].download_count >= 1
    /\ ~shares[last.share_id].is_active

\* the answer validate_share_token gives on the step slot p takes: to its
\* caller, or to the download route
ValidateReturn(p) == IF req[p].op = "download" THEN req'[p].result ELSE last'.result

(* C16: cache-miss fallback: a ValidateToken call that found no cache     *)
(* entry and whose store query finds the share active and not expired     *)
(* goes on to return the active share info read from the store, and       *)
(* writes that info under the token with a TTL of one hour.               *)
C16_MissFallsBackToStore ==
    [][\A p \in Procs :
          /\ (/\ req[p].pc = "v_query" /\ req'[p] # req[p]
              /\ \E i \in ActiveByToken(req[p].token) : ~IsExpired(shares[i].expires_at))
                => req'[p].pc = "v_cache_set"
          /\ (req[p].pc = "v_cache_set" /\ req'[p] # req[p]) =>
                /\ InfoMatches(ValidateReturn(p), req[p].token)
                /\ cache_hit(cache', req[p].token)
                /\ cache'[req[p].token] =
                      [info |-> ValidateReturn(p).info, exp |-> CacheTTL]]_vars

\* a share created with a one-hour expiry is validated an hour later, when
\* the entry of its creation is gone: the answer is active and the entry is
\* new
C16_Witness ==
    /\ ValidateAnswered /\ last.result.kind = "active"
    /\ \E i \in ByToken(last.token) :
          /\ shares[i].is_active
          /\ shares[i].expires_at = Some(0)
          /\ cache_hit(cache, last.token) /\ cache[last.token].exp = CacheTTL

\* slot p returns from record_access on this step
RecordReturns(p) == req[p].pc = "r_log" /\ req'[p].pc = "idle"

(* C17: RecordAccess appends exactly one AccessLogEntry (success = true)  *)
(* for the given shareId on every call: the row is appended when the call *)
(* returns and at no other step, also when no share with that id exists;  *)
(* a call that found no share changes no share row.                       *)
C17_OneLogRowPerCall ==
    [][/\ \A p \in Procs :
             RecordReturns(p) =>
                logs' = Append(logs, [file_share_id |-> req[p].share_id,
                                      success |-> TRUE])
       /\ logs' # logs => \E p \in Procs : RecordReturns(p)
       /\ \A p \in Procs :
             (req'[p] # req[p] /\ req'[p].cnt = 0
              /\ (req[p].pc = "r_log" \/ req'[p].pc = "r_log")) =>
                shares' = shares]_vars

\* a call for an id no share has returned, and the table has its row
C17_Witness ==
    /\ shares = <<>>
    /\ last.op = "record" /\ last.result = Outcome("recorded")
    /\ logs # <<>>
    /\ logs[Len(logs)] = [file_share_id |-> last.share_id, success |-> TRUE]

\* rows of access_logs for share i
LogsFor(i) == Cardinality({k \in 1..Len(logs) : logs[k].file_share_id = i})

(* C18: in RecordAccess the download_count increment and the              *)
(* AccessLogEntry append are one logical operation: every download that   *)
(* completed without an error, as its caller saw it, is both counted in   *)
(* download_count and present in access_logs; no such access leaves the   *)
(* count incremented without its log row.                                 *)
C18_CountAndLogTogether ==
    \A i \in ShareIds :
        ~RecordInFlight(i) =>
            /\ hist.served[i] <= shares[i].download_count
            /\ hist.served[i] <= LogsFor(i)

(* C19: a cache value that cannot be deserialized as a structured record  *)
(* is treated as a cache miss: cache_get reports it absent, so            *)
(* ValidateToken never returns the raw value (it falls back to the        *)
(* durable store).                                                        *)
C19_UndecodableIsMiss ==
    last.op \in {"validate", "download"} => last.result.kind # "raw"

\* what validate_share_token answers from the durable store alone
StoreAnswer(tok) ==
    LET live == {i \in ActiveByToken(tok) : ~IsExpired(shares[i].expires_at)} IN
    IF live = {} THEN NotFound
    ELSE Active(ShareInfo(CHOOSE i \in live : TRUE,
                          shares[CHOOSE i \in live : TRUE]))

(* C20: cache-medium failures are never surfaced: while every cache       *)
(* operation fails (get reports absent, set and delete do nothing),       *)
(* CreateShare, RecordAccess and DisableShare end as the store alone      *)
(* decides, with no error of the cache, and a ValidateToken call made     *)
(* during the outage returns what a validation on the durable store alone *)
(* returns, whatever the unreachable cache holds.                         *)
C20_OutageIsSilent ==
    /\ (ValidateAnswered /\ "outage" \in last.pre) =>
          last.result = StoreAnswer(last.token)
    /\ \A p \in Procs :
          (req[p].pc = "fetch" /\ "outage" \in req[p].pre) =>
              req[p].result = StoreAnswer(req[p].token)
    /\ ~redis_up =>
          /\ (last.op = "create" /\ last.share_id \in ShareIds) =>
                 last.result = ResponseOf("created")
          /\ (last.op = "disable" /\ OwnedBy(last.share_id, last.user_id)) =>
                 last.result = Outcome("success")
          /\ last.op = "record" =>
                 last.result \in {Outcome("recorded"), Outcome("store_error")}

\* during the outage the owner disabled the share, the delete did nothing,
\* and the validation after it was answered not-found by the store although
\* the unreachable server still holds the entry
C20_Witness ==
    /\ ~redis_up
    /\ ValidateAnswered /\ "outage" \in last.pre
    /\ last.result = NotFound
    /\ cache_hit(cache, last.token)
    /\ \E i \in ByToken(last.token) : i \in hist.disabled

\* the ids of a list answer
ListedIds(res) == {res.ids[k] : k \in DOMAIN res.ids}

(* C21: ListSharesByOwner(ownerId) returns exactly the shares whose owner *)
(* is ownerId, active and inactive alike, ordered by created_at           *)
(* descending, and changes no state.                                      *)
C21_ListReturnsOwnedShares ==
    last.op = "list" =>
        /\ last.result.kind = "list"
        /\ ListedIds(last.result) = {i \in ShareIds : shares[i].user_id = last.user_id}
        /\ \A a, b \in DOMAIN last.result.ids :
              a < b => shares[last.result.ids[a]].created_at
                          >= shares[last.result.ids[b]].created_at

(* C23: every operation that sets a share's is_active to false (one-time  *)
(* consumption in RecordAccess, DisableShare, lazy expiry in              *)
(* ValidateToken and in get_share_by_token) also deletes the cache entry  *)
(* of the share's token before it returns: with one call at a time, when  *)
(* no call is in progress no inactive share has a cache entry.            *)
C23_DeactivationEvicts ==
    Quiet => \A i \in ShareIds :
                ~shares[i].is_active => ~cache_hit(cache, TokenOf(i))

\* the cache entry of share i's token says the share is active
ClaimsActive(i) ==
    /\ cache_hit(cache, TokenOf(i))
    /\ cache_get(cache, TokenOf(i)) # Garbled
    /\ cache_get(cache, TokenOf(i)).is_active

(* C24: bounded staleness: in any interleaving, a cache entry that claims *)
(* is_active = true does not coexist with an inactive store row of its    *)
(* token for longer than one cache TTL counted from the moment the row    *)
(* became inactive: the time the row has been inactive plus the time the  *)
(* entry still has to live is at most CacheTTL.                           *)
C24_BoundedStaleness ==
    \A i \in ShareIds :
        (~shares[i].is_active /\ ClaimsActive(i)) =>
            hist.inactive_for[i] + cache[TokenOf(i)].exp <= CacheTTL

\* cache_get hands validate_share_token a value for the token
HitFor(tok) == redis_up /\ cache_hit(cache, tok)

\* on this step slot p takes a validation (for the caller or for the
\* download route) that is still running after the step
ValidateTaken(p) ==
    /\ Free(p)
    /\ req'[p].pc # "idle"
    /\ req'[p].op \in {"validate", "download"}

\* on this step a validation is taken and answered at once
ValidateAtOnce == req' = req /\ last'.op \in {"validate", "download"}

(* C25: on a cache hit ValidateToken returns the cached entry and neither *)
(* reads nor writes the store and does not write the cache: the call ends *)
(* on the step of the lookup (no store query follows), with the value the *)
(* cache held, and store and cache are unchanged by it.                   *)
C25_HitTouchesNothing ==
    [][ /\ \A p \in Procs :
              (ValidateTaken(p) /\ HitFor(req'[p].token)) =>
                  /\ req'[p].pc = "fetch"
                  /\ req'[p].result = Decoded(cache_get(cache, req'[p].token))
                  /\ shares' = shares /\ cache' = cache
        /\ (ValidateAtOnce /\ HitFor(last'.token)) =>
              /\ last'.result = Decoded(cache_get(cache, last'.token))
              /\ shares' = shares /\ cache' = cache
      ]_vars

\* a validation was answered from the cache with a share the store holds
\* as inactive: the store was not consulted
C25_Witness ==
    /\ last.op = "validate"
    /\ last.result.kind = "active"
    /\ ~shares[last.result.info.share_id].is_active

\* slot p's validation takes a step
ValidateStep(p) ==
    \/ ValidateTaken(p)
    \/ Free(p) /\ ValidateAtOnce
    \/ req[p].pc \in {"v_query", "v_expire", "v_cache_set"} /\ req'[p] # req[p]

\* slot p's validation ends on this step with not-found: the download route
\* answers 401 with it
EndsNotFound(p) ==
    /\ req'[p] = Idle
    /\ last'.op = req[p].op /\ last'.token = req[p].token
    /\ last'.result = NotFound

(* C26: lazy expiry on the store path: a ValidateToken that missed the    *)
(* cache and finds an active share whose expires_at is earlier than now   *)
(* sets is_active = false in the store, returns not-found and writes no   *)
(* cache entry; no step of ValidateToken deactivates a share that has no  *)
(* expires_at.                                                            *)
C26_LazyExpiry ==
    [][ \A p \in Procs :
          /\ (req[p].pc = "v_query" /\ req'[p] # req[p]) =>
                \A i \in ActiveByToken(req[p].token) :
                    (shares[i].expires_at # None /\ shares[i].expires_at[1] < 0) =>
                        /\ req'[p].pc = "v_expire" /\ req'[p].share_id = i
                        /\ cache' = cache
          /\ (req[p].pc = "v_expire" /\ req'[p] # req[p]) =>
                /\ ~shares'[req[p].share_id].is_active
                /\ EndsNotFound(p)
                /\ cache' = cache
          /\ ValidateStep(p) =>
                \A i \in ShareIds :
                    (shares[i].is_active /\ shares[i].expires_at = None) =>
                        shares'[i].is_active
      ]_vars

\* a validation found the share past its expiry and answered not-found; the
\* share, never disabled and never downloaded, is now inactive
C26_Witness ==
    /\ last.op = "validate"
    /\ last.result = NotFound
    /\ "expired" \in last.pre
    /\ \E i \in ByToken(last.token) :
          /\ ~shares[i].is_active
          /\ i \notin hist.disabled
          /\ hist.raDone[i] = 0
          /\ ~cache_hit(cache, last.token)

(* C27: when the cache holds no entry for the token and the store holds   *)
(* no share with that token and is_active = true (unknown token, revoked, *)
(* consumed or already-expired share), ValidateToken returns not-found    *)
(* and leaves both the store and the cache unchanged.                     *)
C27_AbsentIsNotFound ==
    [][ \A p \in Procs :
          /\ (ValidateTaken(p) /\ ~HitFor(req'[p].token)) =>
                /\ req'[p].pc = "v_query"
                /\ shares' = shares /\ cache' = cache
          /\ (/\ req[p].pc = "v_query" /\ req'[p] # req[p]
              /\ \A i \in ByToken(req[p].token) : ~shares[i].is_active) =>
                /\ EndsNotFound(p)
                /\ shares' = shares /\ cache' = cache
      ]_vars

\* a validation of the token of a consumed one-time share missed the cache
\* and was answered not-found
C27_Witness ==
    /\ last.op = "validate"
    /\ last.result = NotFound
    /\ "consumed" \in last.pre
    /\ "expired" \notin last.pre
    /\ ~cache_hit(cache, last.token)
    /\ \A i \in ByToken(last.token) : ~shares[i].is_active

(* C28: shares and access-log entries are never removed or rewritten: on  *)
(* every step of CreateShare, ValidateToken, RecordAccess and             *)
(* DisableShare, in any order, the set of share ids only grows and every  *)
(* access-log entry already appended stays present with unchanged fields. *)
C28_AppendOnly ==
    [][ /\ ShareIds \subseteq 1..Len(shares')
        /\ \A k \in 1..Len(logs) :
              k \in 1..Len(logs') /\ logs'[k] = logs[k]
      ]_vars

\* a second access was logged for a share: the table holds both rows
C28_Witness ==
    /\ Len(logs) = 2
    /\ last.op \in {"download", "record"}
    /\ \E i \in ShareIds : logs[1].file_share_id = i /\ logs[2].file_share_id = i

\* create_share leaves with the exception of its db.commit()
CreateFails == last'.op = "create" /\ last'.result = Outcome("error")

(* C29: cache entries are projections of committed store rows: in every   *)
(* reachable state each entry under share_token:T has is_active = true    *)
(* and the share_id, file_id, user_id and one_time_access of the store    *)
(* row whose token is T, and no entry exists for a token without a row; a *)
(* CreateShare whose store write fails writes no cache entry.             *)
C29_CacheProjectsStore ==
    /\ [](\A tok \in DOMAIN cache :
             InfoMatches(Decoded(cache_get(cache, tok)), tok))
    /\ [][CreateFails => cache' = cache]_vars

\* a create_share was just refused by the store while the cache holds the
\* entry of the share that owns the token, a share inactive by now
C29_Witness ==
    /\ last.op = "create"
    /\ last.result = Outcome("error")
    /\ \E tok \in Tokens :
          /\ cache_hit(cache, tok)
          /\ \E i \in ByToken(tok) : ~shares[i].is_active

\* nothing is left that says share i is active: no cache entry for its
\* token, no request in flight whose validation found it active or is about
\* to cache it, and no validation just answered with anything but not-found
Converged(i) ==
    i \in ShareIds =>
        /\ ~cache_hit(cache, TokenOf(i))
        /\ \A p \in Procs :
              (req[p].op \in {"validate", "download"} /\ req[p].token = TokenOf(i)) =>
                  /\ req[p].pc # "v_cache_set"
                  /\ req[p].result.kind # "active"
        /\ (last.op = "validate" /\ last.token = TokenOf(i)) =>
              last.result = NotFound

(* C30: eventual convergence after deactivation: if cache entries expire  *)
(* after their TTL and every started operation eventually completes, then *)
(* for every share that is inactive in the store there is eventually no   *)
(* cache entry for its token, and from then on none is ever written again *)
(* and every ValidateToken for that token returns not-found.              *)
C30_EventualConvergence ==
    \A i \in ShareIdInputs :
        (i \in ShareIds /\ ~shares[i].is_active) ~> [](Converged(i))

\* a share is inactive in the store while the cache still says it is active
C30_Witness ==
    \E i \in ShareIds :
        /\ ~shares[i].is_active
        /\ ClaimsActive(i)
        /\ \E p \in Procs : req[p].pc = "fetch" /\ req[p].token = TokenOf(i)
====
